---------------------------- MODULE Spec2Model ----------------------------
(***************************************************************************)
(* A model of the bitcask key/value store: the in-memory index (SkipList   *)
(* over an ordered concurrent map) with its snapshot iterator, the record  *)
(* encoder, the standard file back-end, and the engine that binds them.    *)
(***************************************************************************)
EXTENDS Integers, Sequences, FiniteSets, TLC

(***************************************************************************)
(* Bounds of the model.                                                    *)
(***************************************************************************)
\* Number of index mutations (put, delete) explored in the index specification.
MaxIdxOps == 3

\* Number of records the engine specifications append to the log.
MaxRecords == 3
\* Options.data_file_size of the engine specifications: two records fill a
\* segment (the default is 256 MiB).
DataFileSize == 18

\* Number of put and delete calls each thread of the thread specification makes.
MaxThreadOps == 2

\* Number of writes to the file of the file back-end specification, and the
\* longest buffer read from it.
MaxWrites == 3
MaxReadLen == 3

\* Keys put into the index: "a", "ab", "b".
IdxKeys == {<<97>>, <<97, 98>>, <<98>>}
\* Keys sought: stored ones, "" (below all), "aa" (between two), "bb" (above all).
AskKeys == {<<>>, <<97>>, <<97, 97>>, <<97, 98>>, <<98, 98>>}
\* Prefixes: none, and "a", which two of the keys have and "b" has not.
Prefixes == {<<>>, <<97>>}

\* Keys and values handed to the engine: "a", "b" and the empty key; the
\* empty value and "x".
EngKeys == {<<97>>, <<98>>}
EngValues == {<<>>, <<120>>}

(***************************************************************************)
(* Option<T>.                                                              *)
(***************************************************************************)
None == [tag |-> "None"]
Some(x) == [tag |-> "Some", val |-> x]

(***************************************************************************)
(* LogRecordPos: where a record lives on disk.                             *)
(***************************************************************************)
LogRecordPos(fid, off, sz) == [file_id |-> fid, offset |-> off, size |-> sz]

\* The locations handed to the index in the index specification.
IdxPositions == {LogRecordPos(1, 0, 9), LogRecordPos(2, 9, 8)}

(***************************************************************************)
(* Vec<u8> ordering (lexicographic, a proper prefix is smaller) and        *)
(* starts_with.                                                            *)
(***************************************************************************)
RECURSIVE VecCmpFrom(_, _, _)
VecCmpFrom(a, b, i) ==
    IF i > Len(a) /\ i > Len(b) THEN "Equal"
    ELSE IF i > Len(a) THEN "Less"
    ELSE IF i > Len(b) THEN "Greater"
    ELSE IF a[i] < b[i] THEN "Less"
    ELSE IF a[i] > b[i] THEN "Greater"
    ELSE VecCmpFrom(a, b, i + 1)

VecCmp(a, b) == VecCmpFrom(a, b, 1)

OrderingReverse(c) ==
    IF c = "Less" THEN "Greater" ELSE IF c = "Greater" THEN "Less" ELSE "Equal"

starts_with(key, prefix) ==
    /\ Len(prefix) <= Len(key)
    /\ \A i \in 1..Len(prefix) : key[i] = prefix[i]

(***************************************************************************)
(* SkipMap<Vec<u8>, T>: an ordered map.  A map is a function whose domain  *)
(* is the set of keys present; iteration is in ascending key order.        *)
(***************************************************************************)
EmptyMap == [k \in {} |-> None]

SkipMapGet(m, key) == IF key \in DOMAIN m THEN Some(m[key]) ELSE None

SkipMapInsert(m, key, pos) ==
    [k \in (DOMAIN m) \cup {key} |-> IF k = key THEN pos ELSE m[k]]

\* A remove that finds the entry and leaves it in the map.
SkipMapRemove_Keep(m, key) == [map |-> m, entry |-> SkipMapGet(m, key)]

SkipMapRemove(m, key) ==
    [map |-> [k \in (DOMAIN m) \ {key} |-> m[k]], entry |-> SkipMapGet(m, key)]

RECURSIVE SkipMapIterFrom(_, _)
SkipMapIterFrom(m, left) ==
    IF left = {} THEN <<>>
    ELSE LET first == CHOOSE k \in left :
                          \A j \in left : VecCmp(k, j) \in {"Less", "Equal"}
         IN  <<[key |-> first, pos |-> m[first]]>>
                 \o SkipMapIterFrom(m, left \ {first})

SkipMapIter(m) == SkipMapIterFrom(m, DOMAIN m)

(***************************************************************************)
(* impl Index for SkipList.                                                *)
(***************************************************************************)
\* A put that inserts before it reads the displaced entry.
SkipList_put_InsertFirst(m, key, pos) ==
    [map    |-> SkipMapInsert(m, key, pos),
     result |-> SkipMapGet(SkipMapInsert(m, key, pos), key)]

\* A put that leaves the entry of a key already present as it is.
SkipList_put_KeepOld(m, key, pos) ==
    [map    |-> IF key \in DOMAIN m THEN m ELSE SkipMapInsert(m, key, pos),
     result |-> SkipMapGet(m, key)]

SkipList_put(m, key, pos) ==
    [map |-> SkipMapInsert(m, key, pos), result |-> SkipMapGet(m, key)]

SkipList_get(m, key) == SkipMapGet(m, key)

\* A delete that looks the entry up and leaves it in the map.
SkipList_delete_NoRemove(m, key) == [map |-> m, result |-> SkipMapGet(m, key)]

SkipList_delete(m, key) ==
    LET r == SkipMapRemove(m, key)
    IN  [map |-> r.map, result |-> r.entry]

\* A list_keys that walks the map from its last entry to its first.
SkipList_list_keys_Descending(m) ==
    LET es == SkipMapIter(m) IN [i \in 1..Len(es) |-> es[Len(es) + 1 - i].key]

SkipList_list_keys(m) ==
    LET es == SkipMapIter(m) IN [i \in 1..Len(es) |-> es[i].key]

ReverseSeq(s) == [i \in 1..Len(s) |-> s[Len(s) + 1 - i]]

IteratorOptions(prefix, reverse) == [prefix |-> prefix, reverse |-> reverse]

\* An iterator that forgets to reverse its items.
SkipList_iterator_NoReverse(m, opts) ==
    [items |-> SkipMapIter(m), curr_index |-> 0, options |-> opts]

\* SkipList::iterator: a copy of the entries, reversed when options.reverse.
SkipList_iterator(m, opts) ==
    [items      |-> IF opts.reverse THEN ReverseSeq(SkipMapIter(m))
                    ELSE SkipMapIter(m),
     curr_index |-> 0,
     options    |-> opts]

(***************************************************************************)
(* impl IndexIterator for SkipListIterator.  Indices are 0-based as in the *)
(* source: item i of the vector is its[i + 1].                             *)
(***************************************************************************)
\* A rewind that leaves the cursor where it is.
SkipListIterator_rewind_Keep(it) == it

SkipListIterator_rewind(it) == [it EXCEPT !.curr_index = 0]

\* A comparator that ignores options.reverse.
SeekCmp_NoReverse(x, key, reverse) == VecCmp(x.key, key)

\* The comparator seek hands to binary_search_by.
SeekCmp(x, key, reverse) ==
    IF reverse THEN OrderingReverse(VecCmp(x.key, key)) ELSE VecCmp(x.key, key)

\* slice::binary_search_by: the loop narrowing [base, base + size).
RECURSIVE BinarySearchLoop(_, _, _, _, _)
BinarySearchLoop(its, key, reverse, base, size) ==
    IF size > 1
    THEN LET half == size \div 2
             mid  == base + half
             cmp  == SeekCmp(its[mid + 1], key, reverse)
         IN  BinarySearchLoop(its, key, reverse,
                              IF cmp = "Greater" THEN base ELSE mid,
                              size - half)
    ELSE LET cmp == SeekCmp(its[base + 1], key, reverse)
         IN  IF cmp = "Equal" THEN base
             ELSE base + (IF cmp = "Less" THEN 1 ELSE 0)

\* Ok(equal_val) => equal_val, Err(insert_val) => insert_val.
BinarySearchBy(its, key, reverse) ==
    IF Len(its) = 0 THEN 0
    ELSE BinarySearchLoop(its, key, reverse, 0, Len(its))

SkipListIterator_seek(it, key) ==
    [it EXCEPT !.curr_index = BinarySearchBy(it.items, key, it.options.reverse)]

\* The while-let loop of next: skip the items that lack the prefix.
RECURSIVE NextLoop(_, _)
NextLoop(it, i) ==
    IF i < Len(it.items)
    THEN LET item == it.items[i + 1]
         IN  IF Len(it.options.prefix) = 0
                   \/ starts_with(item.key, it.options.prefix)
             THEN [it |-> [it EXCEPT !.curr_index = i + 1], result |-> Some(item)]
             ELSE NextLoop(it, i + 1)
    ELSE [it |-> [it EXCEPT !.curr_index = i], result |-> None]

SkipListIterator_next(it) ==
    IF it.curr_index >= Len(it.items)
    THEN [it |-> it, result |-> None]
    ELSE NextLoop(it, it.curr_index)

(***************************************************************************)
(* Bytes and CRC32 (crc32fast::Hasher: the IEEE polynomial 0xEDB88320,     *)
(* reflected, initial value and final xor 0xFFFFFFFF).  A 32-bit word is   *)
(* kept as its four bytes, most significant first.                         *)
(***************************************************************************)
RECURSIVE Xor8(_, _)
Xor8(a, b) ==
    IF a = 0 THEN b
    ELSE IF b = 0 THEN a
    ELSE ((a + b) % 2) + 2 * Xor8(a \div 2, b \div 2)

Xor32(x, y) == [i \in 1..4 |-> Xor8(x[i], y[i])]

\* x >> 1
Shr1(x) == [i \in 1..4 |->
               (IF i = 1 THEN 0 ELSE (x[i - 1] % 2) * 128) + (x[i] \div 2)]

\* x >> 8
Shr8(x) == [i \in 1..4 |-> IF i = 1 THEN 0 ELSE x[i - 1]]

CrcPoly == <<237, 184, 131, 32>>

RECURSIVE CrcTableEntry(_, _)
CrcTableEntry(c, n) ==
    IF n = 0 THEN c
    ELSE CrcTableEntry(IF c[4] % 2 = 1 THEN Xor32(CrcPoly, Shr1(c)) ELSE Shr1(c),
                       n - 1)

CrcTable == [b \in 0..255 |-> CrcTableEntry(<<0, 0, 0, b>>, 8)]

\* One byte b into the running checksum.
CrcStep(crc, b) == Xor32(CrcTable[Xor8(crc[4], b)], Shr8(crc))

\* The bytes buf[lo..hi] in order.  The range is halved and the checksum of
\* the first half (a word of four bytes) is computed before the second half
\* is entered, which keeps the evaluation shallow on long buffers.
RECURSIVE CrcRange(_, _, _, _)
CrcSecondHalf(left, buf, lo, hi) ==
    IF Len(left) = 4 THEN CrcRange(left, buf, lo, hi) ELSE left

CrcRange(crc, buf, lo, hi) ==
    IF lo > hi THEN crc
    ELSE IF lo = hi THEN CrcStep(crc, buf[lo])
    ELSE CrcSecondHalf(CrcRange(crc, buf, lo, (lo + hi) \div 2),
                       buf, ((lo + hi) \div 2) + 1, hi)

CrcUpdate(crc, buf, i) == CrcRange(crc, buf, i, Len(buf))

\* Hasher::new, update(buf), finalize: the checksum as four big-endian bytes.
Crc32(buf) == Xor32(CrcUpdate(<<255, 255, 255, 255>>, buf, 1), <<255, 255, 255, 255>>)

(***************************************************************************)
(* Varints (prost length delimiters): seven bits per byte, least           *)
(* significant group first, the top bit set on all but the last byte.      *)
(***************************************************************************)
RECURSIVE BitLen(_)
BitLen(n) == IF n = 0 THEN 0 ELSE 1 + BitLen(n \div 2)

\* Bytes a value of the given bit length takes as a varint.
VarintLenOfBits(bits) == IF bits = 0 THEN 1 ELSE (bits + 6) \div 7

length_delimiter_len(n) == VarintLenOfBits(BitLen(n))

RECURSIVE encode_length_delimiter(_)
encode_length_delimiter(n) ==
    IF n < 128 THEN <<n>>
    ELSE <<(n % 128) + 128>> \o encode_length_delimiter(n \div 128)

(***************************************************************************)
(* 64-bit values.  A u64 (and a usize of a 64-bit target) is kept as its   *)
(* groups of seven bits, least significant first, without leading zero     *)
(* groups: 300 is <<44, 2>>, 0 is <<0>>.                                   *)
(***************************************************************************)
RECURSIVE ToGroups(_)
ToGroups(n) == IF n < 128 THEN <<n>> ELSE <<n % 128>> \o ToGroups(n \div 128)

\* The groups without the zero groups at the most significant end.
RECURSIVE StripGroups(_)
StripGroups(g) ==
    IF Len(g) > 1 /\ g[Len(g)] = 0 THEN StripGroups(SubSeq(g, 1, Len(g) - 1))
    ELSE g

\* prost::encoding::encode_varint: while value >= 0x80, the low seven bits
\* with the top bit set, then value >>= 7; the last byte as it is.
RECURSIVE encode_varint(_)
encode_varint(g) ==
    IF Len(g) = 1 THEN <<g[1]>>
    ELSE <<g[1] + 128>> \o encode_varint(Tail(g))

\* The tag and the two length delimiters of a record whose key and value
\* have the given lengths (the part of the encoding before the key).
EncodedHeader(rec_type, key_len, value_len) ==
    <<rec_type>> \o encode_varint(key_len) \o encode_varint(value_len)

\* 1 byte + 5 bytes + 5 bytes: the tag and two lengths of u32::MAX (32 bits).
max_log_record_header_size == 1 + VarintLenOfBits(32) + VarintLenOfBits(32)

(***************************************************************************)
(* LogRecord and its encoding.                                             *)
(***************************************************************************)
NORMAL == 1
DELETED == 2
TXNFINISHED == 3

\* impl From<u8> for LogRecordType: a byte other than 1, 2, 3 panics.
Panic(msg) == [tag |-> "Panic", msg |-> msg]

LogRecordType_from(value) ==
    IF value = 1 THEN NORMAL
    ELSE IF value = 2 THEN DELETED
    ELSE IF value = 3 THEN TXNFINISHED
    ELSE Panic("unknown log record type")

LogRecord(key, value, rec_type) ==
    [key |-> key, value |-> value, rec_type |-> rec_type]

\* type, key length, value length, key, value.
RecordBody(rec_type, key, value) ==
    <<rec_type>> \o encode_length_delimiter(Len(key))
        \o encode_length_delimiter(Len(value)) \o key \o value

\* A checksum written least significant byte first.
WithCrc_LittleEndian(body, crc) ==
    [enc_buf |-> body \o <<crc[4], crc[3], crc[2], crc[1]>>, crc |-> crc]

\* buf.put_u32(crc): the CRC follows, most significant byte first.
WithCrc(body, crc) == [enc_buf |-> body \o crc, crc |-> crc]

CrcOver(body) == WithCrc(body, Crc32(body))

\* An encoder that writes the NORMAL tag whatever the record's type.
encode_and_get_crc_TagNormal(rec) == CrcOver(RecordBody(NORMAL, rec.key, rec.value))

encode_and_get_crc(rec) == CrcOver(RecordBody(rec.rec_type, rec.key, rec.value))

encode(rec) == encode_and_get_crc(rec).enc_buf

get_crc(rec) == encode_and_get_crc(rec).crc

encoded_length(rec) ==
    1 + length_delimiter_len(Len(rec.key)) + length_delimiter_len(Len(rec.value))
      + Len(rec.key) + Len(rec.value) + 4

(***************************************************************************)
(* The record-location codec: file_id, offset and size as three varints.   *)
(* The fields are 64-bit values kept as groups of seven bits.              *)
(***************************************************************************)
LogRecordPos_encode(pos) ==
    encode_varint(pos.file_id) \o encode_varint(pos.offset)
        \o encode_varint(pos.size)

\* The group b put before the groups of the decoded rest r.
GroupCons(b, r) ==
    IF r.status # "Ok" THEN r
    ELSE [status |-> "Ok", groups |-> <<b>> \o r.groups, next |-> r.next]

\* prost::encoding::decode_varint from buf[i] on: at most ten bytes, the
\* tenth below 2; taken is the number of bytes already read.  next is the
\* index of the byte after the varint.
RECURSIVE DecodeGroups(_, _, _)
DecodeGroups(buf, i, taken) ==
    IF i > Len(buf) \/ taken >= 10 THEN [status |-> "invalid varint"]
    ELSE IF buf[i] < 128
    THEN IF taken = 9 /\ buf[i] >= 2 THEN [status |-> "invalid varint"]
         ELSE [status |-> "Ok", groups |-> <<buf[i]>>, next |-> i + 1]
    ELSE GroupCons(buf[i] - 128, DecodeGroups(buf, i + 1, taken + 1))

\* The value decoded, without leading zero groups.
VarintValue(r) ==
    IF r.status # "Ok" THEN r
    ELSE [status |-> "Ok", value |-> StripGroups(r.groups), next |-> r.next]

decode_varint(buf, i) == VarintValue(DecodeGroups(buf, i, 0))

\* A narrowing to 16 bits.
AsU32_AsU16(g) ==
    StripGroups(IF Len(g) <= 2 THEN g ELSE SubSeq(g, 1, 2) \o <<g[3] % 4>>)

\* value as u32: the low 32 bits, four groups and four bits of the fifth.
AsU32(g) ==
    StripGroups(IF Len(g) <= 4 THEN g ELSE SubSeq(g, 1, 4) \o <<g[5] % 16>>)

\* The three varints one after the other; an undecodable one panics.
DecodedSize(fid, offset, size) ==
    IF size.status # "Ok" THEN Panic("decode log record pos err")
    ELSE LogRecordPos(AsU32(fid.value), offset.value, AsU32(size.value))

DecodedOffset(buf, fid, offset) ==
    IF offset.status # "Ok" THEN Panic("decode log record pos err")
    ELSE DecodedSize(fid, offset, decode_varint(buf, offset.next))

DecodedFid(buf, fid) ==
    IF fid.status # "Ok" THEN Panic("decode log record pos err")
    ELSE DecodedOffset(buf, fid, decode_varint(buf, fid.next))

decode_log_record_pos(buf) == DecodedFid(buf, decode_varint(buf, 1))

(***************************************************************************)
(* FileIO: a file opened read, write, create, append.  A file is its       *)
(* bytes; offsets are 0-based.                                             *)
(***************************************************************************)
Min(a, b) == IF a < b THEN a ELSE b

\* A read at the descriptor's position (the file's start) instead of offset.
FileIO_read_IgnoreOffset(file, len, offset) ==
    SubSeq(file, 1, Min(len, Len(file)))

\* read_at: the bytes at [offset, offset + len), as many as the file has.
FileIO_read(file, len, offset) ==
    SubSeq(file, offset + 1, Min(offset + len, Len(file)))

\* A write at the file's start, as a descriptor without O_APPEND makes
\* after a reopen.
FileIO_write_AtStart(file, buf) ==
    [file |-> buf \o SubSeq(file, Len(buf) + 1, Len(file)), n |-> Len(buf)]

\* A write to a file opened with truncate instead of append.
FileIO_write_Truncate(file, buf) == [file |-> buf, n |-> Len(buf)]

\* write in append mode: the bytes go to the end of the file.
FileIO_write(file, buf) == [file |-> file \o buf, n |-> Len(buf)]

FileIO_size(file) == Len(file)

(***************************************************************************)
(* Result<T, Errors>.                                                      *)
(***************************************************************************)
Ok(x) == [tag |-> "Ok", val |-> x]
Err(kind) == [tag |-> "Err", kind |-> kind]

(***************************************************************************)
(* u64 offsets.  A value is n, or 2^64 - n when it is counted down from    *)
(* the top of the range (n >= 1): the sums of an offset and a buffer       *)
(* length stay within these, exactly, with their overflow.                 *)
(***************************************************************************)
U64(n) == [top |-> FALSE, n |-> n]
U64FromTop(n) == [top |-> TRUE, n |-> n]

\* x + k in 64 bits: the wrapped sum, and whether it overflowed.
U64Add(x, k) ==
    IF ~x.top THEN [overflow |-> FALSE, val |-> U64(x.n + k)]
    ELSE IF k < x.n THEN [overflow |-> FALSE, val |-> U64FromTop(x.n - k)]
    ELSE [overflow |-> TRUE, val |-> U64(k - x.n)]

\* x > m, m a length of this model.
U64Greater(x, m) == x.top \/ x.n > m

(***************************************************************************)
(* MMapIO: a read-only mapping of the file as it was when mapped.          *)
(***************************************************************************)
\* What a read leaves the caller with: the result and the buffer.
ReadOutcome(result, buf) == [result |-> result, buf |-> buf]

\* &map_arr[offset..end] copied into buf; a range that starts after its end
\* panics.
MMapIO_slice(map_arr, buf, offset, end) ==
    IF offset.top \/ offset.n > end.n
    THEN ReadOutcome(Panic("slice index starts after its end"), buf)
    ELSE ReadOutcome(Ok(end.n - offset.n),
                     SubSeq(map_arr, offset.n + 1, end.n))

\* if end > map_arr.len() { return Err(ReadDataFileEOF) }, then the copy.
MMapIO_checked(map_arr, buf, offset, end) ==
    IF U64Greater(end, Len(map_arr))
    THEN ReadOutcome(Err("ReadDataFileEOF"), buf)
    ELSE MMapIO_slice(map_arr, buf, offset, end)

\* let end = offset + buf.len() as u64: an overflow panics in a build with
\* overflow checks (debug) and wraps in one without (release).
MMapIO_sum(map_arr, buf, offset, sum, build) ==
    IF sum.overflow /\ build = "debug"
    THEN ReadOutcome(Panic("attempt to add with overflow"), buf)
    ELSE MMapIO_checked(map_arr, buf, offset, sum.val)

MMapIO_read(map_arr, buf, offset, build) ==
    MMapIO_sum(map_arr, buf, offset, U64Add(offset, Len(buf)), build)

MMapIO_size(map_arr) == Len(map_arr)

(***************************************************************************)
(* Record decoding and the segment file (section 4.1 and 4.3 of the        *)
(* design: the decoder and the data file are not among the sources).       *)
(***************************************************************************)
\* A length delimiter of 1 to 5 bytes starting at buf[i]; taken is the number
\* of bytes of it already read.  VarintCons puts the low seven bits b before
\* the rest r.
VarintCons(b, r) ==
    IF r.status # "Ok" THEN r
    ELSE [status |-> "Ok", value |-> b + 128 * r.value, len |-> r.len + 1]

RECURSIVE decode_length_delimiter(_, _, _)
decode_length_delimiter(buf, i, taken) ==
    IF i > Len(buf) THEN [status |-> "EndOfFile"]
    ELSE IF taken >= 5 THEN [status |-> "CorruptRecord"]
    ELSE IF buf[i] < 128 THEN [status |-> "Ok", value |-> buf[i], len |-> 1]
    ELSE VarintCons(buf[i] - 128, decode_length_delimiter(buf, i + 1, taken + 1))

\* The header: tag, key length k, value length v.
HeaderOf(hdr, k, v) ==
    IF v.status # "Ok" THEN [status |-> v.status]
    ELSE [status |-> "Ok", rec_type |-> hdr[1],
          key_size |-> k.value, value_size |-> v.value,
          header_size |-> 1 + k.len + v.len]

HeaderAfterKey(hdr, k) ==
    IF k.status # "Ok" THEN [status |-> k.status]
    ELSE HeaderOf(hdr, k, decode_length_delimiter(hdr, 2 + k.len, 0))

DecodeHeader(hdr) ==
    IF Len(hdr) = 0 THEN [status |-> "EndOfFile"]
    ELSE IF hdr[1] \notin {NORMAL, DELETED, TXNFINISHED}
    THEN [status |-> "CorruptRecord"]
    ELSE HeaderAfterKey(hdr, decode_length_delimiter(hdr, 2, 0))

\* The record of header h (its bytes are head) with key, value and CRC.
CheckedRecord(h, head, key, value, crc) ==
    IF crc # Crc32(head \o key \o value) THEN [status |-> "CorruptRecord"]
    ELSE [status |-> "Ok", record |-> LogRecord(key, value, h.rec_type),
          size |-> h.header_size + h.key_size + h.value_size + 4]

\* kv_buf is what the second read returned of key, value and CRC.
RecordOf(h, hdr, kv_buf) ==
    IF Len(kv_buf) < h.key_size + h.value_size + 4 THEN [status |-> "EndOfFile"]
    ELSE CheckedRecord(h, SubSeq(hdr, 1, h.header_size),
                       SubSeq(kv_buf, 1, h.key_size),
                       SubSeq(kv_buf, h.key_size + 1, h.key_size + h.value_size),
                       SubSeq(kv_buf, h.key_size + h.value_size + 1,
                              h.key_size + h.value_size + 4))

ReadBody(file, offset, hdr, h) ==
    IF h.status # "Ok" THEN [status |-> h.status]
    ELSE RecordOf(h, hdr, FileIO_read(file, h.key_size + h.value_size + 4,
                                      offset + h.header_size))

ReadHeader(file, offset, hdr) == ReadBody(file, offset, hdr, DecodeHeader(hdr))

\* read_record_at(offset): one read of the header (at most the maximum header
\* size, at most what the file has left), one read of key, value and CRC.
read_record_at(file, offset) ==
    ReadHeader(file, offset,
               FileIO_read(file,
                           Min(max_log_record_header_size,
                               FileIO_size(file) - offset),
                           offset))

(***************************************************************************)
(* The engine (section 4.5 of the design; db.rs is not among the sources). *)
(* disk maps each segment id to the bytes of its file.                     *)
(***************************************************************************)
\* The append path of put and delete: rotate when the record would make the
\* active segment exceed data_file_size, then write through the file
\* back-end and advance write_off.  The record's location is returned.
AppendTo(disk, id, off, w) ==
    [files     |-> [f \in (DOMAIN disk) \cup {id} |->
                           IF f = id THEN w.file ELSE disk[f]],
     active_id |-> id,
     write_off |-> off + w.n,
     pos       |-> LogRecordPos(id, off, w.n)]

\* An append that never rotates.
AppendLogRecord_NoRotate(disk, aid, woff, enc_buf) ==
    AppendTo(disk, aid, woff, FileIO_write(disk[aid], enc_buf))

AppendLogRecord(disk, aid, woff, enc_buf) ==
    IF woff + Len(enc_buf) > DataFileSize
    THEN AppendTo(disk, aid + 1, 0, FileIO_write(<<>>, enc_buf))
    ELSE AppendTo(disk, aid, woff, FileIO_write(disk[aid], enc_buf))

\* Recovery: a Normal record is installed in the index, a tombstone removes
\* its key.
ApplyRecord(m, record, pos) ==
    IF record.rec_type = NORMAL THEN SkipList_put(m, record.key, pos).map
    ELSE IF record.rec_type = DELETED THEN SkipList_delete(m, record.key).map
    ELSE m

\* Recovery of one segment from offset; the scan stops at the first offset
\* where read_record_at fails.
RECURSIVE RecoverSegment(_, _, _, _)
RecoverRecord(m, fid, file, offset, r) ==
    IF r.status # "Ok" THEN [map |-> m, offset |-> offset, status |-> r.status]
    ELSE RecoverSegment(ApplyRecord(m, r.record, LogRecordPos(fid, offset, r.size)),
                        fid, file, offset + r.size)

RecoverSegment(m, fid, file, offset) ==
    RecoverRecord(m, fid, file, offset, read_record_at(file, offset))

\* Recovery of the segments fid..last in ascending id order.  Where the scan
\* of the active (last) segment stops is its write offset; a corrupt record
\* in a sealed segment aborts.
RECURSIVE RecoverFrom(_, _, _, _)
RecoverNext(disk, fid, last, r) ==
    IF fid = last
    THEN [status |-> "Ok", map |-> r.map, write_off |-> r.offset]
    ELSE IF r.status = "CorruptRecord"
    THEN [status |-> "CorruptRecord", map |-> r.map, write_off |-> 0]
    ELSE RecoverFrom(disk, r.map, fid + 1, last)

RecoverFrom(disk, m, fid, last) ==
    RecoverNext(disk, fid, last, RecoverSegment(m, fid, disk[fid], 0))

MaxId(ids) == CHOOSE i \in ids : \A j \in ids : j <= i

\* A key check that lets every key through.
KeyIsEmpty_Never(key) == FALSE

\* Put, Get and Delete reject the empty key.
KeyIsEmpty(key) == Len(key) = 0

\* Engine::get: index lookup, one positioned read of the record's bytes,
\* decode, the type must be Normal.
GetDecoded(r) ==
    IF r.status # "Ok" THEN Err("CorruptRecord")
    ELSE IF r.record.rec_type # NORMAL THEN Err("KeyNotFound")
    ELSE Ok(r.record.value)

GetAt(disk, open_ids, e) ==
    IF e = None THEN Err("KeyNotFound")
    ELSE IF e.val.file_id \notin open_ids THEN Err("DataFileNotFound")
    ELSE GetDecoded(read_record_at(
             FileIO_read(disk[e.val.file_id], e.val.size, e.val.offset), 0))

EngineGet(disk, m, open_ids, key) ==
    IF KeyIsEmpty(key) THEN Err("KeyIsEmpty")
    ELSE GetAt(disk, open_ids, SkipList_get(m, key))

(***************************************************************************)
(* State.                                                                  *)
(***************************************************************************)
VARIABLES
    map,        \* SkipList.map: the index
    iter,       \* the live SkipListIterator (items, curr_index, options), or None
    lastOp,     \* the operation that ran last, with its arguments
    ret,        \* what that operation returned
    nOps,       \* number of index mutations so far
    \* History variables of the iterator
    snapMap,    \* the index as it was when the iterator was constructed
    fromStart,  \* no seek since construction or the last rewind
    yielded,    \* while fromStart: what next() returned since then
    \* History variable of the index
    installed   \* per key: the location of its latest put, None once deleted

VARIABLES
    files,      \* the database directory: segment id -> bytes of its file
    isOpen,     \* an engine is open on the directory
    active_id,  \* id of the active segment
    write_off,  \* write offset of the active segment
    \* History variables of the engine
    lastWrite,  \* per key: its most recent put or delete
    oplog,      \* the records appended, with where their bytes went
    closedView, \* what get and list_keys answered when the engine was closed
    crash       \* "none", "crashed" (log cut, not yet reopened), "recovered"

VARIABLES
    pc,         \* per thread: where it is in its put or delete
    lock,       \* the thread that holds the write lock, or None
    \* History variables of the threads
    lockLog,    \* the records, in the order their writers took the write lock
    idxLog      \* the records, in the order the index was updated for them

VARIABLES
    dirLock,    \* the engine instance that holds the directory's file lock, or None
    opened      \* the engine instances that are open

VARIABLES
    mmap,       \* the bytes of the live memory mapping (MMapIO.map), or None
    \* History variable of the file back-end
    written     \* the buffers written through FileIO, with the counts returned

\* History variables of the index called by several threads at once
VARIABLES
    calls,      \* the puts and deletes that returned, each with what it returned
    instants    \* the maps the index has been since the latest iterator() call began
                \* (kept in lastOp.during when the call returns)

idxHist == <<iter, nOps, snapMap, fromStart, yielded, installed>>
engState == <<files, isOpen, active_id, write_off>>
engHist == <<lastWrite, oplog, closedView, crash>>
thrState == <<pc, lock, lockLog, idxLog>>
dirState == <<dirLock, opened>>
ioState == <<mmap, written>>
conState == <<calls, instants>>
vars == <<map, lastOp, ret, idxHist, engState, engHist, thrState, dirState, ioState,
          conState>>

\* The engine instances that may be opened on the directory.
Instances == {"e1", "e2"}

\* The threads that call the engine, and the number of calls each makes.
Threads == {"t1", "t2"}
Idle(n) == [at |-> "idle", n |-> n]

NoThreads ==
    /\ pc = [t \in Threads |-> Idle(0)]
    /\ lock = None
    /\ lockLog = <<>>
    /\ idxLog = <<>>

Op(name) == [op |-> name]

(***************************************************************************)
(* The index specification: every operation of Index and IndexIterator,    *)
(* called one at a time in any order.                                      *)
(***************************************************************************)
InitIndex ==
    /\ map = EmptyMap
    /\ iter = None
    /\ lastOp = Op("new")
    /\ ret = None
    /\ nOps = 0
    /\ snapMap = EmptyMap
    /\ yielded = <<>>
    /\ fromStart = TRUE
    /\ installed = [k \in IdxKeys |-> None]
    /\ files = [f \in {} |-> <<>>]
    /\ isOpen = FALSE
    /\ active_id = 0
    /\ write_off = 0
    /\ lastWrite = [k \in EngKeys |-> [op |-> "none"]]
    /\ oplog = <<>>
    /\ closedView = None
    /\ crash = "none"
    /\ NoThreads
    /\ dirLock = None
    /\ opened = {}
    /\ mmap = None
    /\ written = <<>>
    /\ calls = <<>>
    /\ instants = <<>>

\* A put on an index whose iterator walks the live map instead of a copy.
IndexPut_SharedItems(key, pos) ==
    /\ nOps < MaxIdxOps
    /\ LET r == SkipList_put(map, key, pos)
       IN  /\ map' = r.map
           /\ ret' = r.result
           /\ iter' = IF iter = None THEN None
                      ELSE Some([iter.val EXCEPT
                               !.items = SkipList_iterator(r.map, iter.val.options).items])
    /\ lastOp' = [op |-> "put", key |-> key, pos |-> pos]
    /\ nOps' = nOps + 1
    /\ installed' = [installed EXCEPT ![key] = Some(pos)]
    /\ UNCHANGED <<snapMap, yielded, fromStart, engState, engHist, thrState, dirState, ioState, conState>>

IndexPut(key, pos) ==
    /\ nOps < MaxIdxOps
    /\ LET r == SkipList_put(map, key, pos)
       IN  /\ map' = r.map
           /\ ret' = r.result
    /\ lastOp' = [op |-> "put", key |-> key, pos |-> pos]
    /\ nOps' = nOps + 1
    /\ installed' = [installed EXCEPT ![key] = Some(pos)]
    /\ UNCHANGED <<iter, snapMap, yielded, fromStart, engState, engHist, thrState, dirState, ioState, conState>>

IndexGet(key) ==
    /\ ret' = SkipList_get(map, key)
    /\ lastOp' = [op |-> "get", key |-> key]
    /\ UNCHANGED <<map, iter, nOps, snapMap, yielded, fromStart, installed, engState, engHist, thrState, dirState, ioState, conState>>

IndexDelete(key) ==
    /\ nOps < MaxIdxOps
    /\ LET r == SkipList_delete(map, key)
       IN  /\ map' = r.map
           /\ ret' = r.result
    /\ lastOp' = [op |-> "delete", key |-> key]
    /\ nOps' = nOps + 1
    /\ installed' = [installed EXCEPT ![key] = None]
    /\ UNCHANGED <<iter, snapMap, yielded, fromStart, engState, engHist, thrState, dirState, ioState, conState>>

IndexListKeys ==
    /\ ret' = Some(SkipList_list_keys(map))
    /\ lastOp' = Op("list_keys")
    /\ UNCHANGED <<map, iter, nOps, snapMap, yielded, fromStart, installed, engState, engHist, thrState, dirState, ioState, conState>>

IndexIterator(opts) ==
    /\ iter' = Some(SkipList_iterator(map, opts))
    /\ snapMap' = map
    /\ yielded' = <<>>
    /\ fromStart' = TRUE
    /\ ret' = None
    /\ lastOp' = [op |-> "iterator", options |-> opts]
    /\ UNCHANGED <<map, nOps, installed, engState, engHist, thrState, dirState, ioState, conState>>

IterRewind ==
    /\ iter # None
    /\ iter' = Some(SkipListIterator_rewind(iter.val))
    /\ yielded' = <<>>
    /\ fromStart' = TRUE
    /\ ret' = None
    /\ lastOp' = [op |-> "rewind", from |-> iter.val.curr_index]
    /\ UNCHANGED <<map, nOps, snapMap, installed, engState, engHist, thrState, dirState, ioState, conState>>

IterSeek(key) ==
    /\ iter # None
    /\ iter' = Some(SkipListIterator_seek(iter.val, key))
    /\ yielded' = <<>>
    /\ fromStart' = FALSE
    /\ ret' = None
    /\ lastOp' = [op |-> "seek", key |-> key]
    /\ UNCHANGED <<map, nOps, snapMap, installed, engState, engHist, thrState, dirState, ioState, conState>>

IterNext ==
    /\ iter # None
    /\ LET r == SkipListIterator_next(iter.val)
       IN  /\ iter' = Some(r.it)
           /\ ret' = r.result
           /\ yielded' = IF fromStart /\ r.result # None
                         THEN Append(yielded, r.result.val)
                         ELSE yielded
    /\ lastOp' = [op |-> "next", afterSeek |-> lastOp.op = "seek",
                  seekKey |-> IF lastOp.op = "seek" THEN lastOp.key ELSE <<>>]
    /\ UNCHANGED <<map, nOps, snapMap, fromStart, installed, engState, engHist, thrState, dirState, ioState, conState>>

NextIndex ==
    \/ \E key \in IdxKeys, pos \in IdxPositions : IndexPut(key, pos)
    \/ \E key \in IdxKeys : IndexGet(key)
    \/ \E key \in IdxKeys : IndexDelete(key)
    \/ IndexListKeys
    \/ \E p \in Prefixes, r \in BOOLEAN : IndexIterator(IteratorOptions(p, r))
    \/ IterRewind
    \/ \E key \in AskKeys : IterSeek(key)
    \/ IterNext

SpecIndex == InitIndex /\ [][NextIndex]_vars

(***************************************************************************)
(* The engine specification: open, put, get, delete, list_keys and close   *)
(* called one at a time on one directory, which starts empty.              *)
(***************************************************************************)
InitEngine ==
    /\ map = EmptyMap
    /\ iter = None
    /\ lastOp = Op("new")
    /\ ret = None
    /\ nOps = 0
    /\ snapMap = EmptyMap
    /\ yielded = <<>>
    /\ fromStart = TRUE
    /\ installed = [k \in IdxKeys |-> None]
    /\ files = [f \in {} |-> <<>>]
    /\ isOpen = FALSE
    /\ active_id = 0
    /\ write_off = 0
    /\ lastWrite = [k \in EngKeys |-> [op |-> "none"]]
    /\ oplog = <<>>
    /\ closedView = None
    /\ crash = "none"
    /\ NoThreads
    /\ dirLock = None
    /\ opened = {}
    /\ mmap = None
    /\ written = <<>>
    /\ calls = <<>>
    /\ instants = <<>>

\* What the history keeps of an appended record: a is AppendLogRecord's
\* result, the record's bytes are the last len bytes of the file written.
Appended(key, op, value, a) ==
    [key |-> key, op |-> op, value |-> value, seg |-> a.active_id,
     start |-> Len(a.files[a.active_id]) - a.pos.size, len |-> a.pos.size]

\* The file lock on the directory's sentinel refuses a second holder.
LockHeld_Never(l) == FALSE

LockHeld(l) == l # None

\* Engine::open by instance e: the file lock is taken, segment 1 is created
\* in an empty directory, the highest id becomes the active segment, and the
\* index is rebuilt from the segments.  An open that fails gives the lock
\* back.
Opened(e, disk, last, r) ==
    IF r.status = "Ok"
    THEN /\ files' = disk
         /\ isOpen' = TRUE
         /\ active_id' = last
         /\ write_off' = r.write_off
         /\ map' = r.map
         /\ dirLock' = Some(e)
         /\ opened' = opened \cup {e}
         /\ ret' = Ok("engine")
    ELSE /\ ret' = Err(r.status)
         /\ UNCHANGED <<files, isOpen, active_id, write_off, map, dirState>>

OpenDir(e, disk) ==
    Opened(e, disk, MaxId(DOMAIN disk),
           RecoverFrom(disk, EmptyMap, 1, MaxId(DOMAIN disk)))

EngineOpenBy(e) ==
    /\ e \notin opened
    /\ IF LockHeld(dirLock)
       THEN /\ ret' = Err("DatabaseIsUsing")
            /\ UNCHANGED <<files, isOpen, active_id, write_off, map, dirState>>
       ELSE OpenDir(e, IF DOMAIN files = {} THEN [f \in {1} |-> <<>>] ELSE files)
    /\ lastOp' = [op |-> "open", by |-> e, others |-> opened \ {e},
                  reopened |-> closedView # None,
                  afterCrash |-> crash = "crashed"]
    /\ crash' = IF crash = "crashed" /\ ~LockHeld(dirLock)
                THEN "recovered" ELSE crash
    /\ UNCHANGED <<idxHist, lastWrite, oplog, closedView, thrState, ioState, conState>>

\* The engine specifications open one instance.
EngineOpen == EngineOpenBy("e1")

\* The record is appended (a is AppendLogRecord's result), then the index
\* is updated.
Written(a, m, lw, entry) ==
    /\ files' = a.files
    /\ active_id' = a.active_id
    /\ write_off' = a.write_off
    /\ map' = m
    /\ ret' = Ok("done")
    /\ lastWrite' = lw
    /\ oplog' = Append(oplog, entry)
    /\ UNCHANGED isOpen

PutAppended(key, value, a) ==
    Written(a, SkipList_put(map, key, a.pos).map,
            [lastWrite EXCEPT ![key] = [op |-> "put", value |-> value]],
            Appended(key, "put", value, a))

\* Engine::put.
EnginePut(key, value) ==
    /\ isOpen
    /\ Len(oplog) < MaxRecords
    /\ lastOp' = [op |-> "engine_put", key |-> key, value |-> value]
    /\ IF KeyIsEmpty(key)
       THEN /\ ret' = Err("KeyIsEmpty")
            /\ UNCHANGED <<map, engState, lastWrite, oplog>>
       ELSE PutAppended(key, value,
                AppendLogRecord(files, active_id, write_off,
                                encode(LogRecord(key, value, NORMAL))))
    /\ UNCHANGED <<idxHist, closedView, crash, thrState, dirState, ioState, conState>>

DeleteAppended(key, a) ==
    Written(a, SkipList_delete(map, key).map,
            [lastWrite EXCEPT ![key] = [op |-> "delete"]],
            Appended(key, "delete", <<>>, a))

\* A delete that takes every key for one the index holds.
KeyAbsent_Never(m, key) == FALSE

\* delete's test for a key the index does not hold.
KeyAbsent(m, key) == SkipList_get(m, key) = None

\* Engine::delete: nothing is written for a key the index does not hold.
EngineDelete(key) ==
    /\ isOpen
    /\ Len(oplog) < MaxRecords
    /\ lastOp' = [op |-> "engine_delete", key |-> key,
                  present |-> SkipList_get(map, key) # None]
    /\ IF KeyIsEmpty(key)
       THEN /\ ret' = Err("KeyIsEmpty")
            /\ UNCHANGED <<map, engState, lastWrite, oplog>>
       ELSE IF KeyAbsent(map, key)
       THEN /\ ret' = Ok("done")
            /\ lastWrite' = [lastWrite EXCEPT ![key] = [op |-> "delete"]]
            /\ UNCHANGED <<map, engState, oplog>>
       ELSE DeleteAppended(key,
                AppendLogRecord(files, active_id, write_off,
                                encode(LogRecord(key, <<>>, DELETED))))
    /\ UNCHANGED <<idxHist, closedView, crash, thrState, dirState, ioState, conState>>

\* Engine::get.
EngineGetOp(key) ==
    /\ isOpen
    /\ ret' = EngineGet(files, map, DOMAIN files, key)
    /\ lastOp' = [op |-> "engine_get", key |-> key]
    /\ UNCHANGED <<map, idxHist, engState, engHist, thrState, dirState, ioState, conState>>

\* Engine::list_keys.
EngineListKeys ==
    /\ isOpen
    /\ ret' = Ok(SkipList_list_keys(map))
    /\ lastOp' = Op("engine_list_keys")
    /\ UNCHANGED <<map, idxHist, engState, engHist, thrState, dirState, ioState, conState>>

\* What a caller sees of the store: get of every key, and list_keys.
View(disk, m) ==
    [gets |-> [k \in EngKeys |-> EngineGet(disk, m, DOMAIN disk, k)],
     keys |-> SkipList_list_keys(m)]

\* Engine::close by instance e: the engine and its index are dropped, the
\* file lock is released, the files stay.
EngineCloseBy(e) ==
    /\ e \in opened
    /\ isOpen
    /\ isOpen' = FALSE
    /\ dirLock' = None
    /\ opened' = opened \ {e}
    /\ map' = EmptyMap
    /\ active_id' = 0
    /\ write_off' = 0
    /\ closedView' = Some(View(files, map))
    /\ ret' = Ok("done")
    /\ lastOp' = Op("close")
    /\ UNCHANGED <<files, idxHist, lastWrite, oplog, crash, thrState, ioState, conState>>

EngineClose == EngineCloseBy("e1")

EngineKeys == EngKeys \cup {<<>>}

NextEngine ==
    \/ EngineOpen
    \/ \E key \in EngineKeys, value \in EngValues : EnginePut(key, value)
    \/ \E key \in EngineKeys : EngineDelete(key)
    \/ \E key \in EngineKeys : EngineGetOp(key)
    \/ EngineListKeys
    \/ EngineClose

SpecEngine == InitEngine /\ [][NextEngine]_vars

(***************************************************************************)
(* The crash specification: the engine specification until the process     *)
(* dies once, in an append, leaving the active segment's file cut at any   *)
(* byte offset; the directory is then opened again and read.               *)
(***************************************************************************)
\* The appended records that lie entirely before the cut.
Durable(log, seg, cut) ==
    SelectSeq(log, LAMBDA e : e.seg < seg \/ e.start + e.len <= cut)

\* Per key, its most recent record in log.
LastWriteOf(log) ==
    [k \in EngKeys |->
        LET at == {i \in 1..Len(log) : log[i].key = k}
        IN  IF at = {} THEN [op |-> "none"]
            ELSE LET e == log[CHOOSE i \in at : \A j \in at : j <= i]
                 IN  IF e.op = "put" THEN [op |-> "put", value |-> e.value]
                     ELSE [op |-> "delete"]]

Crash(cut) ==
    /\ isOpen
    /\ crash = "none"
    /\ cut <= Len(files[active_id])
    /\ files' = [files EXCEPT ![active_id] = SubSeq(files[active_id], 1, cut)]
    /\ isOpen' = FALSE
    /\ map' = EmptyMap
    /\ active_id' = 0
    /\ write_off' = 0
    /\ crash' = "crashed"
    /\ oplog' = Durable(oplog, active_id, cut)
    /\ lastWrite' = LastWriteOf(Durable(oplog, active_id, cut))
    /\ closedView' = None
    /\ ret' = None
    /\ lastOp' = [op |-> "crash", cut |-> cut, lost |-> Len(files[active_id]) - cut]
    /\ dirLock' = None
    /\ opened' = {}
    /\ UNCHANGED <<idxHist, thrState, ioState, conState>>

\* After the crash the directory is opened again and read.
NextCrash ==
    \/ crash = "none" /\ NextEngine
    \/ \E cut \in 0..DataFileSize : Crash(cut)
    \/ crash # "none" /\ EngineOpen
    \/ crash # "none" /\ \E key \in EngineKeys : EngineGetOp(key)

SpecCrash == InitEngine /\ [][NextCrash]_vars

(***************************************************************************)
(* The recovery specification: the crash specification, and puts on the    *)
(* engine that was opened after the crash.                                 *)
(***************************************************************************)
NextRecover ==
    \/ NextCrash
    \/ crash = "recovered" /\
           \E key \in EngKeys, value \in EngValues : EnginePut(key, value)

SpecRecover == InitEngine /\ [][NextRecover]_vars

(***************************************************************************)
(* The directory specification: two engine instances are opened on and     *)
(* closed (or dropped) from one directory in any order; the instance that  *)
(* is open writes and reads.                                               *)
(***************************************************************************)
NextDir ==
    \/ \E e \in Instances : EngineOpenBy(e)
    \/ \E e \in Instances : EngineCloseBy(e)
    \/ \E key \in EngKeys, value \in EngValues : EnginePut(key, value)
    \/ \E key \in EngKeys : EngineDelete(key)
    \/ \E key \in EngKeys : EngineGetOp(key)

SpecDir == InitEngine /\ [][NextDir]_vars

(***************************************************************************)
(* The thread specification: the threads call put and delete on one open   *)
(* engine (section 5: parallel threads, one write lock).  A put encodes    *)
(* its record, takes the write lock, appends, updates the index and        *)
(* releases the lock; a delete first looks its key up in the index.        *)
(***************************************************************************)
InitThreads ==
    /\ map = EmptyMap
    /\ iter = None
    /\ lastOp = Op("open")
    /\ ret = Ok("engine")
    /\ nOps = 0
    /\ snapMap = EmptyMap
    /\ yielded = <<>>
    /\ fromStart = TRUE
    /\ installed = [k \in IdxKeys |-> None]
    /\ files = [f \in {1} |-> <<>>]
    /\ isOpen = TRUE
    /\ active_id = 1
    /\ write_off = 0
    /\ lastWrite = [k \in EngKeys |-> [op |-> "none"]]
    /\ oplog = <<>>
    /\ closedView = None
    /\ crash = "none"
    /\ NoThreads
    /\ dirLock = Some("e1")
    /\ opened = {"e1"}
    /\ mmap = None
    /\ written = <<>>
    /\ calls = <<>>
    /\ instants = <<>>

Waiting(n, rec) == [at |-> "acquire", n |-> n, rec |-> rec]

\* put: the record is encoded before the lock is taken.
PutBegin(t, key, value) ==
    /\ pc[t].at = "idle"
    /\ pc[t].n < MaxThreadOps
    /\ pc' = [pc EXCEPT ![t] = Waiting(@.n + 1, LogRecord(key, value, NORMAL))]
    /\ UNCHANGED <<map, lastOp, ret, idxHist, engState, engHist,
                   lock, lockLog, idxLog, dirState, ioState, conState>>

\* delete: a key the index does not hold is done with no I/O.
DeleteBegin(t, key) ==
    /\ pc[t].at = "idle"
    /\ pc[t].n < MaxThreadOps
    /\ pc' = [pc EXCEPT ![t] =
                 IF SkipList_get(map, key) = None THEN Idle(@.n + 1)
                 ELSE Waiting(@.n + 1, LogRecord(key, <<>>, DELETED))]
    /\ UNCHANGED <<map, lastOp, ret, idxHist, engState, engHist,
                   lock, lockLog, idxLog, dirState, ioState, conState>>

Acquire(t) ==
    /\ pc[t].at = "acquire"
    /\ lock = None
    /\ lock' = Some(t)
    /\ lockLog' = Append(lockLog, [by |-> t, rec |-> pc[t].rec])
    /\ pc' = [pc EXCEPT ![t].at = "append"]
    /\ UNCHANGED <<map, lastOp, ret, idxHist, engState, engHist, idxLog,
                   dirState, ioState, conState>>

ThreadAppended(t, a) ==
    /\ files' = a.files
    /\ active_id' = a.active_id
    /\ write_off' = a.write_off
    /\ pc' = [pc EXCEPT ![t] = [at |-> "index", n |-> @.n, rec |-> @.rec,
                                pos |-> a.pos]]

\* Under the lock: rotation if needed, and the append.
ThreadAppend(t) ==
    /\ pc[t].at = "append"
    /\ lock = Some(t)
    /\ ThreadAppended(t, AppendLogRecord(files, active_id, write_off,
                                         encode(pc[t].rec)))
    /\ UNCHANGED <<map, lastOp, ret, idxHist, isOpen, engHist,
                   lock, lockLog, idxLog, dirState, ioState, conState>>

\* Under the lock: the index is updated for the record appended.
ThreadIndex(t) ==
    /\ pc[t].at = "index"
    /\ lock = Some(t)
    /\ map' = IF pc[t].rec.rec_type = NORMAL
              THEN SkipList_put(map, pc[t].rec.key, pc[t].pos).map
              ELSE SkipList_delete(map, pc[t].rec.key).map
    /\ idxLog' = Append(idxLog, [by |-> t, rec |-> pc[t].rec])
    /\ pc' = [pc EXCEPT ![t] = [at |-> "release", n |-> @.n]]
    /\ UNCHANGED <<lastOp, ret, idxHist, engState, engHist, lock, lockLog,
                   dirState, ioState, conState>>

Release(t) ==
    /\ pc[t].at = "release"
    /\ lock = Some(t)
    /\ lock' = None
    /\ pc' = [pc EXCEPT ![t] = Idle(@.n)]
    /\ UNCHANGED <<map, lastOp, ret, idxHist, engState, engHist,
                   lockLog, idxLog, dirState, ioState, conState>>

NextThreads ==
    \/ \E t \in Threads, key \in EngKeys, value \in EngValues :
           PutBegin(t, key, value)
    \/ \E t \in Threads, key \in EngKeys : DeleteBegin(t, key)
    \/ \E t \in Threads : Acquire(t)
    \/ \E t \in Threads : ThreadAppend(t)
    \/ \E t \in Threads : ThreadIndex(t)
    \/ \E t \in Threads : Release(t)

SpecThreads == InitThreads /\ [][NextThreads]_vars

(***************************************************************************)
(* The shared-index specification: the threads call put, delete and        *)
(* iterator on one SkipList with no lock around the calls (the methods     *)
(* take &self and SkipList is Send + Sync).  Each call of the SkipMap      *)
(* (get, insert, remove, a step of iter) is one atomic step; a method that *)
(* makes several such calls takes several steps.                           *)
(***************************************************************************)
ThreadNo(t) == IF t = "t1" THEN 1 ELSE 2

\* The location thread t hands to its n-th call: no two puts hand the same.
CallPos(t, n) == LogRecordPos(ThreadNo(t), n, 9)

SharedOptions == {IteratorOptions(<<>>, FALSE), IteratorOptions(<<>>, TRUE)}

InitShared ==
    /\ map = EmptyMap
    /\ iter = None
    /\ lastOp = Op("new")
    /\ ret = None
    /\ nOps = 0
    /\ snapMap = EmptyMap
    /\ yielded = <<>>
    /\ fromStart = TRUE
    /\ installed = [k \in IdxKeys |-> None]
    /\ files = [f \in {} |-> <<>>]
    /\ isOpen = FALSE
    /\ active_id = 0
    /\ write_off = 0
    /\ lastWrite = [k \in EngKeys |-> [op |-> "none"]]
    /\ oplog = <<>>
    /\ closedView = None
    /\ crash = "none"
    /\ NoThreads
    /\ dirLock = None
    /\ opened = {}
    /\ mmap = None
    /\ written = <<>>
    /\ calls = <<>>
    /\ instants = <<>>

\* A thread is inside iterator().
Walking == \E t \in Threads : pc[t].at = "walk"

\* The index became m: an instant of the iterator() call in progress, if any.
Observed(m) == IF Walking THEN Append(instants, m) ELSE instants

\* put, first half: if let Some(entry) = self.map.get(&key).
SharedPutGet(t, key) ==
    /\ pc[t].at = "idle"
    /\ pc[t].n < MaxThreadOps
    /\ pc' = [pc EXCEPT ![t] = [at |-> "insert", n |-> @.n + 1, key |-> key,
                                pos |-> CallPos(t, @.n + 1),
                                result |-> SkipMapGet(map, key)]]
    /\ UNCHANGED <<map, lastOp, ret, idxHist, engState, engHist,
                   lock, lockLog, idxLog, dirState, ioState, conState>>

\* put, second half: self.map.insert(key, pos); result.
SharedPutInsert(t) ==
    /\ pc[t].at = "insert"
    /\ map' = SkipMapInsert(map, pc[t].key, pc[t].pos)
    /\ ret' = pc[t].result
    /\ lastOp' = [op |-> "shared_put", by |-> t, key |-> pc[t].key,
                  pos |-> pc[t].pos]
    /\ calls' = Append(calls, [op |-> "put", by |-> t, key |-> pc[t].key,
                               result |-> pc[t].result,
                               absent |-> pc[t].key \notin DOMAIN map])
    /\ instants' = Observed(map')
    /\ pc' = [pc EXCEPT ![t] = Idle(@.n)]
    /\ UNCHANGED <<idxHist, engState, engHist, lock, lockLog, idxLog,
                   dirState, ioState>>

\* delete: self.map.remove(&key), one call of the SkipMap.
SharedDelete(t, key) ==
    /\ pc[t].at = "idle"
    /\ pc[t].n < MaxThreadOps
    /\ map' = SkipList_delete(map, key).map
    /\ ret' = SkipList_delete(map, key).result
    /\ lastOp' = [op |-> "shared_delete", by |-> t, key |-> key]
    /\ calls' = Append(calls, [op |-> "delete", by |-> t, key |-> key,
                               result |-> SkipList_delete(map, key).result,
                               absent |-> key \notin DOMAIN map])
    /\ instants' = Observed(map')
    /\ pc' = [pc EXCEPT ![t] = Idle(@.n + 1)]
    /\ UNCHANGED <<idxHist, engState, engHist, lock, lockLog, idxLog,
                   dirState, ioState>>

\* iterator: items is allocated and the walk of self.map.iter() begins.
SharedIterBegin(t, opts) ==
    /\ pc[t].at = "idle"
    /\ pc[t].n < MaxThreadOps
    /\ ~Walking
    /\ pc' = [pc EXCEPT ![t] = [at |-> "walk", n |-> @.n + 1, options |-> opts,
                                items |-> <<>>]]
    /\ instants' = <<map>>
    /\ UNCHANGED <<map, lastOp, ret, idxHist, engState, engHist,
                   lock, lockLog, idxLog, dirState, ioState, calls>>

\* The keys of m that the cursor of SkipMap::iter has not passed: all of
\* them before the first item, those above the last item's key after it.
KeysAhead(m, items) ==
    IF items = <<>> THEN DOMAIN m
    ELSE {k \in DOMAIN m : VecCmp(items[Len(items)].key, k) = "Less"}

\* The entry the cursor moves to: the one with the smallest key ahead.
NextEntry(m, ahead) ==
    LET first == CHOOSE k \in ahead :
                     \A j \in ahead : VecCmp(k, j) \in {"Less", "Equal"}
    IN  [key |-> first, pos |-> m[first]]

\* The walk is over: items is reversed if options.reverse, and returned.
SharedIterReturn(t) ==
    /\ ret' = [items      |-> IF pc[t].options.reverse
                              THEN ReverseSeq(pc[t].items) ELSE pc[t].items,
               curr_index |-> 0,
               options    |-> pc[t].options]
    /\ lastOp' = [op |-> "shared_iterator", by |-> t, options |-> pc[t].options,
                  during |-> instants]
    /\ pc' = [pc EXCEPT ![t] = Idle(@.n)]

\* One turn of `for entry in self.map.iter()`: the next entry of the map as
\* it is now is pushed, or the loop ends.
SharedIterStep(t) ==
    /\ pc[t].at = "walk"
    /\ IF KeysAhead(map, pc[t].items) = {}
       THEN SharedIterReturn(t)
       ELSE /\ pc' = [pc EXCEPT ![t].items =
                         Append(@, NextEntry(map, KeysAhead(map, pc[t].items)))]
            /\ UNCHANGED <<lastOp, ret>>
    /\ UNCHANGED <<map, idxHist, engState, engHist, lock, lockLog, idxLog,
                   dirState, ioState, conState>>

NextShared ==
    \/ \E t \in Threads, key \in IdxKeys : SharedPutGet(t, key)
    \/ \E t \in Threads : SharedPutInsert(t)
    \/ \E t \in Threads, key \in IdxKeys : SharedDelete(t, key)
    \/ \E t \in Threads, opts \in SharedOptions : SharedIterBegin(t, opts)
    \/ \E t \in Threads : SharedIterStep(t)

SpecShared == InitShared /\ [][NextShared]_vars

(***************************************************************************)
(* The codec specification: records are encoded (and the bytes decoded     *)
(* again), and bytes are converted to record types.                        *)
(***************************************************************************)
\* Keys: "", "a", "name" and a key of 128 bytes, whose length takes two
\* varint bytes.  Values: "", "x", "bitcask-rs".
LongKey == [i \in 1..128 |-> 107]
CodecKeys == {<<>>, <<97>>, <<110, 97, 109, 101>>, LongKey}
CodecValues == {<<>>, <<120>>, <<98, 105, 116, 99, 97, 115, 107, 45, 114, 115>>}
CodecTypes == {NORMAL, DELETED, TXNFINISHED}
Bytes == 0..255

\* Lengths of keys and values: 0, 1, 127, 128, u32::MAX, 2^32, 2^35 - 1,
\* 2^35, and isize::MAX of a 64-bit target (2^63 - 1), the longest a Vec
\* can be.
CodecLengths ==
    {<<0>>, <<1>>, <<127>>, <<0, 1>>, <<127, 127, 127, 127, 15>>,
     <<0, 0, 0, 0, 16>>, <<127, 127, 127, 127, 127>>, <<0, 0, 0, 0, 0, 1>>,
     [i \in 1..9 |-> 127]}

\* Fields of a location.  u32: 0, 1, 300, 2^28 and u32::MAX.  u64: 0, 127,
\* 128, u32::MAX, 2^32, 2^63 and u64::MAX.
CodecU32s ==
    {<<0>>, <<1>>, <<44, 2>>, <<0, 0, 0, 0, 1>>, <<127, 127, 127, 127, 15>>}
CodecU64s ==
    {<<0>>, <<127>>, <<0, 1>>, <<127, 127, 127, 127, 15>>, <<0, 0, 0, 0, 16>>,
     [i \in 1..10 |-> IF i = 10 THEN 1 ELSE 0],
     [i \in 1..10 |-> IF i = 10 THEN 1 ELSE 127]}

\* The inputs are drawn here; each action applies one operation to its input.
InitCodec ==
    /\ lastOp \in
           {[op |-> "record", rec |-> LogRecord(key, value, type)] :
                key \in CodecKeys, value \in CodecValues, type \in CodecTypes}
           \cup {[op |-> "byte", value |-> b] : b \in Bytes}
           \cup {[op |-> "pos", pos |-> LogRecordPos(fid, off, sz)] :
                     fid \in CodecU32s, off \in CodecU64s, sz \in CodecU32s}
           \cup {[op |-> "lengths", rec_type |-> type, key_len |-> k,
                  value_len |-> v] :
                     type \in CodecTypes, k \in CodecLengths, v \in CodecLengths}
    /\ ret = None
    /\ map = EmptyMap
    /\ iter = None
    /\ nOps = 0
    /\ snapMap = EmptyMap
    /\ yielded = <<>>
    /\ fromStart = TRUE
    /\ installed = [k \in IdxKeys |-> None]
    /\ files = [f \in {} |-> <<>>]
    /\ isOpen = FALSE
    /\ active_id = 0
    /\ write_off = 0
    /\ lastWrite = [k \in EngKeys |-> [op |-> "none"]]
    /\ oplog = <<>>
    /\ closedView = None
    /\ crash = "none"
    /\ NoThreads
    /\ dirLock = None
    /\ opened = {}
    /\ mmap = None
    /\ written = <<>>
    /\ calls = <<>>
    /\ instants = <<>>

\* LogRecord::encode, get_crc and encoded_length of the record, and what
\* read_record_at decodes from a file that holds the encoding.
CodecEncode ==
    /\ lastOp.op = "record"
    /\ lastOp' = [op |-> "encode", rec |-> lastOp.rec]
    /\ ret' = [enc_buf |-> encode(lastOp.rec), crc |-> get_crc(lastOp.rec),
               len |-> encoded_length(lastOp.rec),
               decoded |-> read_record_at(encode(lastOp.rec), 0)]
    /\ UNCHANGED <<map, idxHist, engState, engHist, thrState, dirState, ioState, conState>>

\* LogRecordType::from(value).
CodecTypeFrom ==
    /\ lastOp.op = "byte"
    /\ lastOp' = [op |-> "type_from", value |-> lastOp.value]
    /\ ret' = LogRecordType_from(lastOp.value)
    /\ UNCHANGED <<map, idxHist, engState, engHist, thrState, dirState, ioState, conState>>

\* The header encode_and_get_crc writes for a record of the given type
\* whose key and value have the given lengths.
CodecHeader ==
    /\ lastOp.op = "lengths"
    /\ lastOp' = [op |-> "header", rec_type |-> lastOp.rec_type,
                  key_len |-> lastOp.key_len, value_len |-> lastOp.value_len]
    /\ ret' = EncodedHeader(lastOp.rec_type, lastOp.key_len, lastOp.value_len)
    /\ UNCHANGED <<map, idxHist, engState, engHist, thrState, dirState, ioState, conState>>

\* LogRecordPos::encode of the location, and decode_log_record_pos of the
\* bytes.
CodecPos ==
    /\ lastOp.op = "pos"
    /\ lastOp' = [op |-> "pos_codec", pos |-> lastOp.pos]
    /\ ret' = [enc |-> LogRecordPos_encode(lastOp.pos),
               decoded |-> decode_log_record_pos(LogRecordPos_encode(lastOp.pos))]
    /\ UNCHANGED <<map, idxHist, engState, engHist, thrState, dirState, ioState, conState>>

NextCodec ==
    \/ CodecEncode
    \/ CodecTypeFrom
    \/ CodecHeader
    \/ CodecPos

SpecCodec == InitCodec /\ [][NextCodec]_vars

(***************************************************************************)
(* The file back-end specification: one file, created empty, is written    *)
(* through FileIO, read through FileIO and through memory mappings made of *)
(* it.                                                                     *)
(***************************************************************************)
\* Buffers written: "aa", "b" and the empty buffer.
WriteBufs == {<<97, 97>>, <<98>>, <<>>}
\* Offsets read at: inside and past the file, and the two highest of u64.
ReadOffsets == {U64(0), U64(1), U64(3), U64(6), U64FromTop(1), U64FromTop(2)}
\* A caller's buffer of n bytes, filled with "?".
ReadBuf(n) == [i \in 1..n |-> 63]
Builds == {"debug", "release"}

InitIO ==
    /\ map = EmptyMap
    /\ iter = None
    /\ lastOp = Op("new")
    /\ ret = None
    /\ nOps = 0
    /\ snapMap = EmptyMap
    /\ yielded = <<>>
    /\ fromStart = TRUE
    /\ installed = [k \in IdxKeys |-> None]
    /\ files = [f \in {1} |-> <<>>]
    /\ isOpen = FALSE
    /\ active_id = 0
    /\ write_off = 0
    /\ lastWrite = [k \in EngKeys |-> [op |-> "none"]]
    /\ oplog = <<>>
    /\ closedView = None
    /\ crash = "none"
    /\ NoThreads
    /\ dirLock = None
    /\ opened = {}
    /\ mmap = None
    /\ written = <<>>
    /\ calls = <<>>
    /\ instants = <<>>

IOWritten(buf, w) ==
    /\ files' = [files EXCEPT ![1] = w.file]
    /\ written' = Append(written, [buf |-> buf, n |-> w.n])
    /\ ret' = Ok(w.n)

\* FileIO::write.
IOWrite(buf) ==
    /\ Len(written) < MaxWrites
    /\ IOWritten(buf, FileIO_write(files[1], buf))
    /\ lastOp' = [op |-> "write", buf |-> buf]
    /\ UNCHANGED <<map, idxHist, isOpen, active_id, write_off, engHist,
                   thrState, dirState, mmap, conState>>

\* FileIO::read into a buffer of len bytes.
IORead(len, offset) ==
    /\ ~offset.top
    /\ ret' = Ok(FileIO_read(files[1], len, offset.n))
    /\ lastOp' = [op |-> "read", len |-> len, offset |-> offset.n]
    /\ UNCHANGED <<map, idxHist, engState, engHist, thrState, dirState, ioState, conState>>

\* FileIO::size.
IOSize ==
    /\ ret' = Ok(FileIO_size(files[1]))
    /\ lastOp' = Op("size")
    /\ UNCHANGED <<map, idxHist, engState, engHist, thrState, dirState, ioState, conState>>

\* MMapIO::new: the file as it is now is mapped.
MMapNew ==
    /\ mmap' = Some(files[1])
    /\ ret' = Ok("mmap")
    /\ lastOp' = Op("mmap_new")
    /\ UNCHANGED <<map, idxHist, engState, engHist, thrState, dirState, written, conState>>

\* MMapIO::read into a buffer of len bytes, in either build.
MMapRead(len, offset, build) ==
    /\ mmap # None
    /\ ret' = MMapIO_read(mmap.val, ReadBuf(len), offset, build)
    /\ lastOp' = [op |-> "mmap_read", len |-> len, offset |-> offset]
    /\ UNCHANGED <<map, idxHist, engState, engHist, thrState, dirState, ioState, conState>>

NextIO ==
    \/ \E buf \in WriteBufs : IOWrite(buf)
    \/ \E len \in 0..MaxReadLen, offset \in ReadOffsets : IORead(len, offset)
    \/ IOSize
    \/ MMapNew
    \/ \E len \in 0..MaxReadLen, offset \in ReadOffsets, build \in Builds :
           MMapRead(len, offset, build)

SpecIO == InitIO /\ [][NextIO]_vars

(***************************************************************************)
(* Vocabulary of the properties, stated apart from the operators above.    *)
(***************************************************************************)
\* a is lexicographically below b.
LexLess(a, b) ==
    \E i \in 1..Len(b) :
        /\ \A j \in 1..(i - 1) : j <= Len(a) /\ a[j] = b[j]
        /\ i > Len(a) \/ a[i] < b[i]

LexLeq(a, b) == a = b \/ LexLess(a, b)

HasPrefix(key, prefix) ==
    Len(prefix) <= Len(key) /\ SubSeq(key, 1, Len(prefix)) = prefix

\* The entries of index m whose key starts with prefix.
Matching(m, prefix) ==
    {[key |-> k, pos |-> m[k]] : k \in {j \in DOMAIN m : HasPrefix(j, prefix)}}

\* What repeated next() calls return from the iterator's current cursor.
RECURSIVE YieldFrom(_)
YieldFrom(it) ==
    LET r == SkipListIterator_next(it)
    IN  IF r.result = None THEN <<>> ELSE <<r.result.val>> \o YieldFrom(r.it)

\* The bytes of the segments fid, fid + 1, ... one after the other.
RECURSIVE AllBytes(_, _)
AllBytes(disk, fid) ==
    IF fid \notin DOMAIN disk THEN <<>>
    ELSE disk[fid] \o AllBytes(disk, fid + 1)

\* The encodings of the records of log, one after the other.
RECURSIVE EncodeAll(_)
EncodeAll(log) ==
    IF log = <<>> THEN <<>> ELSE encode(Head(log).rec) \o EncodeAll(Tail(log))

Front(s) == SubSeq(s, 1, Len(s) - 1)

\* The records that segment fid holds from offset on, with their locations;
\* then those of the segments fid, fid + 1, ...
RECURSIVE ScanSegment(_, _, _)
ScanRecord(fid, file, offset, r) ==
    IF r.status # "Ok" THEN <<>>
    ELSE <<[rec |-> r.record, pos |-> LogRecordPos(fid, offset, r.size)]>>
             \o ScanSegment(fid, file, offset + r.size)

ScanSegment(fid, file, offset) ==
    ScanRecord(fid, file, offset, read_record_at(file, offset))

RECURSIVE ScanLog(_, _)
ScanLog(disk, fid) ==
    IF fid \notin DOMAIN disk THEN <<>>
    ELSE ScanSegment(fid, disk[fid], 0) \o ScanLog(disk, fid + 1)

\* The location of the last record of key in log if that record is Normal.
LastNormal(log, key) ==
    LET at == {i \in 1..Len(log) : log[i].rec.key = key}
        last == CHOOSE i \in at : \A j \in at : j <= i
    IN  IF at = {} THEN None
        ELSE IF log[last].rec.rec_type = NORMAL THEN Some(log[last].pos)
        ELSE None

\* What get(key) has to answer after the writes lw records.
Expected(lw, key) ==
    IF lw[key].op = "put" THEN Ok(lw[key].value) ELSE Err("KeyNotFound")

(***************************************************************************)
(* The engine's contract.                                                  *)
(***************************************************************************)
\* C1: on an open engine, after any puts and deletes (and reopens), get of a
\* key whose most recent operation is put(k, v) returns v, the value of the
\* latest put and none older.
C1_GetReturnsLatestPut ==
    /\ isOpen =>
           \A k \in EngKeys :
               lastWrite[k].op = "put" =>
                   EngineGet(files, map, DOMAIN files, k) = Ok(lastWrite[k].value)
    /\ (lastOp.op = "engine_get" /\ lastOp.key \in EngKeys
            /\ lastWrite[lastOp.key].op = "put") =>
           ret = Ok(lastWrite[lastOp.key].value)

\* get("a") answered "" after put("a", "x") and then put("a", "").
C1_Witness ==
    /\ lastOp.op = "engine_get" /\ lastOp.key = <<97>>
    /\ ret = Ok(<<>>)
    /\ Len(oplog) >= 2
    /\ oplog[1].key = <<97>> /\ oplog[1].op = "put" /\ oplog[1].value = <<120>>
    /\ oplog[2].key = <<97>> /\ oplog[2].op = "put" /\ oplog[2].value = <<>>

\* C2: on an open engine, a key whose most recent operation is delete(k) has
\* no index entry and get of it fails with KeyNotFound.
C2_DeletedKeyNotFound ==
    /\ isOpen =>
           \A k \in EngKeys :
               lastWrite[k].op = "delete" =>
                   /\ EngineGet(files, map, DOMAIN files, k) = Err("KeyNotFound")
                   /\ SkipList_get(map, k) = None
    /\ (lastOp.op = "engine_get" /\ lastOp.key \in EngKeys
            /\ lastWrite[lastOp.key].op = "delete") =>
           ret = Err("KeyNotFound")

\* get("a") failed with KeyNotFound after put("a", "x") and delete("a"), whose
\* tombstone is the latest record of "a" in the log.
C2_Witness ==
    /\ lastOp.op = "engine_get" /\ lastOp.key = <<97>>
    /\ ret = Err("KeyNotFound")
    /\ lastWrite[<<97>>].op = "delete"
    /\ Len(oplog) >= 2
    /\ oplog[1].key = <<97>> /\ oplog[1].op = "put" /\ oplog[1].value = <<120>>
    /\ oplog[Len(oplog)].key = <<97>> /\ oplog[Len(oplog)].op = "delete"

\* C3: an open that follows a close succeeds, and get of every key and
\* list_keys answer what they answered when the engine was closed.
C3_ReopenPreservesContents ==
    (lastOp.op = "open" /\ lastOp.reopened) =>
        /\ ret = Ok("engine")
        /\ isOpen
        /\ View(files, map) = closedView.val

\* A reopen of a directory of two segments, holding a key that was deleted
\* and a key that is present.
C3_Witness ==
    /\ lastOp.op = "open" /\ lastOp.reopened
    /\ DOMAIN files = {1, 2}
    /\ Len(files[2]) > 0
    /\ \E e \in {oplog[i] : i \in 1..Len(oplog)} : e.op = "delete"
    /\ \E k \in EngKeys : closedView.val.gets[k] = Err("KeyNotFound")
    /\ \E k \in EngKeys : closedView.val.gets[k].tag = "Ok"
    /\ closedView.val.keys # <<>>

\* C4: after the log was cut at any byte offset, open succeeds and get of
\* every key returns the value of the key's latest record that lies wholly
\* before the cut, or KeyNotFound when that record is a tombstone or there is
\* none.
C4_CrashRecovery ==
    /\ (lastOp.op = "open" /\ lastOp.afterCrash) => ret = Ok("engine")
    /\ crash = "recovered" =>
           /\ isOpen
           /\ \A k \in EngKeys :
                  EngineGet(files, map, DOMAIN files, k) = Expected(lastWrite, k)
           /\ (lastOp.op = "engine_get" /\ lastOp.key \in EngKeys) =>
                  ret = Expected(lastWrite, lastOp.key)

\* After put("a", "") the record of put("a", "x") was cut inside its
\* checksum; the engine was opened and get("a") answered "".
C4_Witness ==
    /\ crash = "recovered"
    /\ lastOp.op = "engine_get" /\ lastOp.key = <<97>>
    /\ ret = Ok(<<>>)
    /\ write_off > 0
    /\ Len(files[active_id]) - write_off > 5
    /\ SubSeq(files[active_id], write_off + 1, write_off + 5)
           = <<NORMAL, 1, 1, 97, 120>>

\* C5: the log holds the records in the order their writers took the write
\* lock, the index is updated in that order, and once every call has
\* finished the index entry of each key is the location of the key's last
\* record in the log if that record is Normal, and absent otherwise.
C5_WriteLockOrder ==
    /\ AllBytes(files, 1) =
           EncodeAll(IF lock # None /\ pc[lock.val].at = "append"
                     THEN Front(lockLog) ELSE lockLog)
    /\ idxLog = IF lock # None /\ pc[lock.val].at \in {"append", "index"}
                THEN Front(lockLog) ELSE lockLog
    /\ (\A t \in Threads : pc[t].at = "idle") =>
           \A k \in EngKeys :
               SkipList_get(map, k) = LastNormal(ScanLog(files, 1), k)

\* Both threads have made their calls; the writes of "a" alternate between
\* them: a put, a delete, a put.
C5_Witness ==
    /\ \A t \in Threads : pc[t] = Idle(MaxThreadOps)
    /\ Len(lockLog) >= 3
    /\ \A i \in 1..3 : lockLog[i].rec.key = <<97>>
    /\ lockLog[1].by = "t1" /\ lockLog[2].by = "t2" /\ lockLog[3].by = "t1"
    /\ lockLog[2].rec.rec_type = DELETED
    /\ lockLog[3].rec.rec_type = NORMAL
    /\ SkipList_get(map, <<97>>) # None

(***************************************************************************)
(* The index's contract.                                                   *)
(***************************************************************************)
(***************************************************************************)
(* C6: Index.put returns None when the key had no entry and otherwise the  *)
(* location installed by the preceding put for that key; afterwards        *)
(* get(key) returns the new location and every other key is as before.     *)
(***************************************************************************)
C6_PutReturnsDisplaced ==
    [][lastOp'.op = "put" =>
        /\ ret' = installed[lastOp'.key]
        /\ SkipList_get(map', lastOp'.key) = Some(lastOp'.pos)
        /\ \A k \in (IdxKeys \cup AskKeys) \ {lastOp'.key} :
               SkipList_get(map', k) = SkipList_get(map, k)]_vars

C6_Witness ==
    /\ lastOp.op = "put"
    /\ ret # None
    /\ ret.val # lastOp.pos
    /\ Cardinality(DOMAIN map) >= 2

(***************************************************************************)
(* C7: Index.delete removes the entry and returns the location stored for  *)
(* the key, after which get(key) is None; deleting a key with no entry     *)
(* returns None and leaves the index unchanged.                            *)
(***************************************************************************)
C7_DeleteRemovesAndReturns ==
    [][lastOp'.op = "delete" =>
        /\ ret' = installed[lastOp'.key]
        /\ SkipList_get(map', lastOp'.key) = None
        /\ installed[lastOp'.key] = None => map' = map
        /\ \A k \in (IdxKeys \cup AskKeys) \ {lastOp'.key} :
               SkipList_get(map', k) = SkipList_get(map, k)]_vars

C7_Witness ==
    /\ lastOp.op = "delete"
    /\ ret # None
    /\ map # EmptyMap

(***************************************************************************)
(* C8: from the start, repeated next() returns every entry of the index    *)
(* (as it was at construction) whose key has the prefix, exactly once, no  *)
(* other entry, in strictly ascending key order (descending when reverse), *)
(* and then None.                                                          *)
(***************************************************************************)
C8_IteratorCompleteOrdered ==
    (iter # None /\ fromStart) =>
        LET opts == iter.val.options
            want == Matching(snapMap, opts.prefix)
        IN  /\ \A i \in 1..Len(yielded) : yielded[i] \in want
            /\ \A i, j \in 1..Len(yielded) :
                   i < j => IF opts.reverse
                            THEN LexLess(yielded[j].key, yielded[i].key)
                            ELSE LexLess(yielded[i].key, yielded[j].key)
            /\ (lastOp.op = "next" /\ ret # None) =>
                   Len(yielded) > 0 /\ ret.val = yielded[Len(yielded)]
            /\ (lastOp.op = "next" /\ ret = None) =>
                   {yielded[i] : i \in 1..Len(yielded)} = want

C8_Witness ==
    /\ iter # None /\ fromStart
    /\ lastOp.op = "next" /\ ret = None
    /\ iter.val.options = IteratorOptions(<<97>>, TRUE)
    /\ Len(yielded) = 2
    /\ Cardinality(DOMAIN snapMap) = 3

(***************************************************************************)
(* C9: a put or delete applied to the index after an iterator was          *)
(* constructed changes nothing of what the iterator yields: not from its   *)
(* cursor, not after a rewind, not after any seek.                         *)
(***************************************************************************)
C9_IteratorSnapshotStable ==
    [][(iter # None /\ lastOp'.op \in {"put", "delete"}) =>
        /\ iter' # None
        /\ YieldFrom(iter'.val) = YieldFrom(iter.val)
        /\ YieldFrom(SkipListIterator_rewind(iter'.val))
               = YieldFrom(SkipListIterator_rewind(iter.val))
        /\ \A k \in AskKeys :
               YieldFrom(SkipListIterator_seek(iter'.val, k))
                   = YieldFrom(SkipListIterator_seek(iter.val, k))]_vars

C9_Witness ==
    /\ iter # None
    /\ lastOp.op \in {"put", "delete"}
    /\ lastOp.key \in DOMAIN snapMap
    /\ SkipList_get(map, lastOp.key) # SkipList_get(snapMap, lastOp.key)
    /\ Len(iter.val.items) >= 2
    /\ iter.val.curr_index = 1

(***************************************************************************)
(* C10: the next() that follows seek(key) returns the entry with the       *)
(* smallest key >= key that has the prefix (the largest key <= key when    *)
(* reverse), and None when there is none.                                  *)
(***************************************************************************)
SeekCandidates(m, opts, key) ==
    {k \in DOMAIN m :
        /\ HasPrefix(k, opts.prefix)
        /\ IF opts.reverse THEN LexLeq(k, key) ELSE LexLeq(key, k)}

SeekExpected(m, opts, key) ==
    LET cand == SeekCandidates(m, opts, key)
    IN  IF cand = {} THEN None
        ELSE LET best == CHOOSE k \in cand :
                             \A j \in cand : IF opts.reverse THEN LexLeq(j, k)
                                              ELSE LexLeq(k, j)
             IN  Some([key |-> best, pos |-> snapMap[best]])

C10_SeekThenNext ==
    (iter # None /\ lastOp.op = "next" /\ lastOp.afterSeek) =>
        ret = SeekExpected(snapMap, iter.val.options, lastOp.seekKey)

C10_Witness ==
    /\ iter # None /\ lastOp.op = "next" /\ lastOp.afterSeek
    /\ iter.val.options = IteratorOptions(<<97>>, TRUE)
    /\ lastOp.seekKey = <<97, 97>>
    /\ ret # None
    /\ Cardinality(DOMAIN snapMap) = 3

(***************************************************************************)
(* C11: list_keys returns the keys that have an entry, each once, in       *)
(* ascending order: the list is strictly ascending, its elements are the   *)
(* keys whose latest mutation is a put, and the list_keys call returns it. *)
(***************************************************************************)
C11_ListKeysSortedExact ==
    LET ks == SkipList_list_keys(map)
    IN  /\ \A i \in 1..(Len(ks) - 1) : LexLess(ks[i], ks[i + 1])
        /\ {ks[i] : i \in 1..Len(ks)} = {k \in IdxKeys : installed[k] # None}
        /\ lastOp.op = "list_keys" => ret = Some(ks)

\* list_keys returned "a", "ab" after three mutations of the index.
C11_Witness ==
    /\ lastOp.op = "list_keys"
    /\ ret = Some(<<<<97>>, <<97, 98>>>>)
    /\ nOps = 3
    /\ installed[<<97>>] = Some(LogRecordPos(2, 9, 8))
    /\ installed[<<97, 98>>] = Some(LogRecordPos(1, 0, 9))

(***************************************************************************)
(* C12: at most one engine instance is open on the directory; an open      *)
(* called while another instance is open fails with DatabaseIsUsing and    *)
(* opens nothing; an open called while no instance is open (none was       *)
(* opened yet, or the holder has closed or was dropped) succeeds.          *)
(***************************************************************************)
C12_DirectoryMutex ==
    /\ Cardinality(opened) <= 1
    /\ (lastOp.op = "open" /\ lastOp.others # {}) =>
           /\ ret = Err("DatabaseIsUsing")
           /\ opened = lastOp.others
    /\ (lastOp.op = "open" /\ lastOp.others = {}) =>
           /\ ret = Ok("engine")
           /\ opened = {lastOp.by}

\* Instance e2 was refused while e1, which has written a record, is open.
C12_Witness ==
    /\ lastOp.op = "open" /\ lastOp.by = "e2"
    /\ ret = Err("DatabaseIsUsing")
    /\ opened = {"e1"}
    /\ oplog # <<>>

(***************************************************************************)
(* C13: put, get and delete called with the empty key fail with           *)
(* KeyIsEmpty, and the step changes neither the segment files (no record   *)
(* is appended, no segment is added), nor the active segment and its       *)
(* write offset, nor the index.                                            *)
(***************************************************************************)
C13_EmptyKeyRejected ==
    [][(lastOp'.op \in {"engine_put", "engine_get", "engine_delete"}
            /\ lastOp'.key = <<>>) =>
           /\ ret' = Err("KeyIsEmpty")
           /\ files' = files
           /\ active_id' = active_id
           /\ write_off' = write_off
           /\ map' = map
           /\ oplog' = oplog]_vars

\* put with the empty key was refused by an engine that holds a record.
C13_Witness ==
    /\ lastOp.op = "engine_put" /\ lastOp.key = <<>>
    /\ ret = Err("KeyIsEmpty")
    /\ oplog # <<>>
    /\ DOMAIN map # {}

(***************************************************************************)
(* C14: converting a byte to a record type never panics: a byte other than *)
(* 1, 2, 3 is answered with a value (from which the decoder makes          *)
(* CorruptRecord), the bytes 1, 2, 3 with their type.                      *)
(***************************************************************************)
C14_TypeFromIsTotal ==
    lastOp.op = "type_from" =>
        /\ ret # Panic("unknown log record type")
        /\ lastOp.value \in CodecTypes => ret = lastOp.value

(***************************************************************************)
(* C15: while the engine is open the segment ids are 1..active_id, the     *)
(* active segment being the highest; no step changes a segment below the   *)
(* active one; a put or delete that appends rotates exactly when the       *)
(* record would make the active segment exceed data_file_size, and the     *)
(* rotation leaves the old active segment as it is and makes segment       *)
(* active_id + 1 the active one.                                           *)
(***************************************************************************)
\* The record a put or delete step appends, if it appends one.
AppendedBy(op) ==
    IF op.op = "engine_put" /\ op.key # <<>>
    THEN Some(LogRecord(op.key, op.value, NORMAL))
    ELSE IF op.op = "engine_delete" /\ op.key # <<>> /\ op.present
    THEN Some(LogRecord(op.key, <<>>, DELETED))
    ELSE None

C15_SegmentSet ==
    [][/\ isOpen' =>
           /\ active_id' >= 1
           /\ DOMAIN files' = 1..active_id'
       /\ isOpen =>
           \A f \in 1..(active_id - 1) :
               f \in DOMAIN files' /\ files'[f] = files[f]
       /\ (isOpen /\ isOpen') =>
           /\ active_id' \in {active_id, active_id + 1}
           /\ active_id' = active_id + 1 <=>
                  /\ AppendedBy(lastOp') # None
                  /\ write_off + encoded_length(AppendedBy(lastOp').val)
                         > DataFileSize
           /\ active_id' = active_id + 1 =>
                  /\ files'[active_id] = files[active_id]
                  /\ files'[active_id'] = encode(AppendedBy(lastOp').val)]_vars

\* A put rotated: segment 2 is active and holds the one record that did
\* not fit into segment 1.
C15_Witness ==
    /\ isOpen
    /\ lastOp.op = "engine_put"
    /\ active_id = 2
    /\ DOMAIN files = {1, 2}
    /\ Len(files[1]) + Len(files[2]) > DataFileSize
    /\ files[2] = encode(LogRecord(lastOp.key, lastOp.value, NORMAL))

(***************************************************************************)
(* C16: while the engine is open the write offset of the active segment is *)
(* the size of its file, and every index entry is the place where the      *)
(* bytes of a Normal record of its key lie: a read of size bytes at        *)
(* offset returns the record's encoding.                                   *)
(***************************************************************************)
C16_WriteOffsetIsFileSize ==
    isOpen =>
        /\ write_off = FileIO_size(files[active_id])
        /\ \A k \in DOMAIN map :
               \E v \in EngValues :
                   FileIO_read(files[map[k].file_id], map[k].size, map[k].offset)
                       = encode(LogRecord(k, v, NORMAL))

(***************************************************************************)
(* C17: decoding the encoding of a record gives back its type, key and     *)
(* value with the checksum accepted, the size it reports is the length of  *)
(* the encoding (which is also encoded_length), and the last four bytes of *)
(* the encoding are the big-endian CRC32 of the bytes before them, equal   *)
(* to get_crc.  The three checksums of the source's test are among the     *)
(* cases: 1020360578, 3756865478 and 1867197446.                           *)
(***************************************************************************)
\* A 32-bit word as its four bytes, most significant first.
BigEndian(b1, b2, b3, b4) == <<b1, b2, b3, b4>>

KnownCrc(rec) ==
    IF rec = LogRecord(<<110, 97, 109, 101>>,
                       <<98, 105, 116, 99, 97, 115, 107, 45, 114, 115>>, NORMAL)
    THEN Some(BigEndian(60, 209, 119, 130))
    ELSE IF rec = LogRecord(<<110, 97, 109, 101>>, <<>>, NORMAL)
    THEN Some(BigEndian(223, 237, 55, 198))
    ELSE IF rec = LogRecord(<<110, 97, 109, 101>>,
                            <<98, 105, 116, 99, 97, 115, 107, 45, 114, 115>>,
                            DELETED)
    THEN Some(BigEndian(111, 75, 44, 6))
    ELSE None

C17_CodecRoundTrip ==
    lastOp.op = "encode" =>
        LET n == Len(ret.enc_buf)
        IN  /\ ret.decoded.status = "Ok"
            /\ ret.decoded.record.rec_type = lastOp.rec.rec_type
            /\ ret.decoded.record.key = lastOp.rec.key
            /\ ret.decoded.record.value = lastOp.rec.value
            /\ ret.decoded.size = n
            /\ ret.len = n
            /\ n > 4
            /\ SubSeq(ret.enc_buf, n - 3, n) = Crc32(SubSeq(ret.enc_buf, 1, n - 4))
            /\ SubSeq(ret.enc_buf, n - 3, n) = ret.crc
            /\ KnownCrc(lastOp.rec) # None => ret.crc = KnownCrc(lastOp.rec).val

\* A tombstone with a key of 128 bytes (two length bytes) and the value
\* "bitcask-rs" was encoded to 146 bytes and decoded again.
C17_Witness ==
    /\ lastOp.op = "encode"
    /\ lastOp.rec.rec_type = DELETED
    /\ Len(lastOp.rec.key) = 128
    /\ Len(lastOp.rec.value) = 10
    /\ Len(ret.enc_buf) = 146
    /\ SubSeq(ret.enc_buf, 1, 4) = <<2, 128, 1, 10>>
    /\ ret.decoded.status = "Ok"

(***************************************************************************)
(* C18: MMapIO::read with offset + len(buf) beyond the mapping returns     *)
(* ReadDataFileEOF and leaves the buffer as it was; otherwise it returns   *)
(* len(buf) and the buffer holds the bytes at [offset, offset + len(buf)). *)
(* It neither reads short nor panics.                                      *)
(***************************************************************************)
C18_MMapReadAllOrEof ==
    lastOp.op = "mmap_read" =>
        IF lastOp.offset.top \/ lastOp.offset.n + lastOp.len > Len(mmap.val)
        THEN /\ ret.result = Err("ReadDataFileEOF")
             /\ ret.buf = ReadBuf(lastOp.len)
        ELSE /\ ret.result = Ok(lastOp.len)
             /\ Len(ret.buf) = lastOp.len
             /\ \A i \in 1..lastOp.len :
                    ret.buf[i] = mmap.val[lastOp.offset.n + i]

(***************************************************************************)
(* C19: the file of the standard back-end starts empty; after any          *)
(* sequence of writes its size is the sum of the counts the writes         *)
(* returned, its bytes are the written buffers one after the other (a      *)
(* write goes to the end and overwrites nothing), and a read of len bytes  *)
(* at offset with offset + len <= size returns len bytes, those of the     *)
(* written buffers at that range.                                          *)
(***************************************************************************)
RECURSIVE SumCounts(_)
SumCounts(w) == IF w = <<>> THEN 0 ELSE SumCounts(Front(w)) + w[Len(w)].n

RECURSIVE ConcatBufs(_)
ConcatBufs(w) == IF w = <<>> THEN <<>> ELSE ConcatBufs(Front(w)) \o w[Len(w)].buf

C19_FileIOAppendOnly ==
    /\ FileIO_size(files[1]) = SumCounts(written)
    /\ files[1] = ConcatBufs(written)
    /\ lastOp.op = "size" => ret = Ok(SumCounts(written))
    /\ (lastOp.op = "read" /\ lastOp.offset + lastOp.len <= FileIO_size(files[1]))
           => /\ Len(ret.val) = lastOp.len
              /\ ret.val = SubSeq(ConcatBufs(written), lastOp.offset + 1,
                                  lastOp.offset + lastOp.len)

\* Three writes, "aa", "b" and "aa", then a read of the two bytes at offset 1,
\* which span the first two writes.
C19_Witness ==
    /\ Len(written) = 3
    /\ written[1].buf = <<97, 97>>
    /\ written[2].buf = <<98>>
    /\ lastOp.op = "read" /\ lastOp.offset = 1 /\ lastOp.len = 2
    /\ ret = Ok(<<97, 98>>)

(***************************************************************************)
(* C20: delete of a non-empty key that has no index entry succeeds and     *)
(* does no I/O: no record is appended, the segment files (the active one's *)
(* size with them), the active segment id and its write offset are         *)
(* unchanged, and so is the index.                                         *)
(***************************************************************************)
C20_DeleteAbsentNoIO ==
    [][(lastOp'.op = "engine_delete" /\ lastOp'.key # <<>>
            /\ SkipList_get(map, lastOp'.key) = None) =>
           /\ ret' = Ok("done")
           /\ files' = files
           /\ active_id' = active_id
           /\ write_off' = write_off
           /\ map' = map
           /\ oplog' = oplog]_vars

\* "b" was deleted, with success, in an engine whose index holds only "a"
\* and whose log holds records.
C20_Witness ==
    /\ lastOp.op = "engine_delete" /\ lastOp.key = <<98>> /\ ~lastOp.present
    /\ ret = Ok("done")
    /\ DOMAIN map = {<<97>>}
    /\ oplog # <<>>
    /\ write_off > 0

(***************************************************************************)
(* C21: after rewind(), whatever next and seek calls came before, repeated *)
(* next() calls return the sequence a freshly constructed iterator over    *)
(* the same snapshot returns; a second rewind changes nothing.             *)
(***************************************************************************)
C21_RewindRestarts ==
    (iter # None /\ lastOp.op = "rewind") =>
        /\ YieldFrom(iter.val)
               = YieldFrom(SkipList_iterator(snapMap, iter.val.options))
        /\ SkipListIterator_rewind(iter.val) = iter.val

\* A rewind of a reverse iterator with a prefix whose cursor had moved past
\* two of its three items, of which two have the prefix.
C21_Witness ==
    /\ iter # None /\ lastOp.op = "rewind" /\ lastOp.from = 2
    /\ iter.val.options = IteratorOptions(<<97>>, TRUE)
    /\ Len(iter.val.items) = 3
    /\ Len(YieldFrom(iter.val)) = 2

(***************************************************************************)
(* C22: the header encode writes (the tag, the varint key length, the      *)
(* varint value length) is at most max_log_record_header_size() = 11 bytes *)
(* long, for every key and value length the platform's length type holds:  *)
(* those of 2^32 and more as well.                                         *)
(***************************************************************************)
C22_HeaderFitsMax ==
    /\ max_log_record_header_size = 11
    /\ lastOp.op = "header" => Len(ret) <= max_log_record_header_size
    /\ lastOp.op = "encode" =>
           /\ EncodedHeader(lastOp.rec.rec_type, ToGroups(Len(lastOp.rec.key)),
                            ToGroups(Len(lastOp.rec.value)))
                  = SubSeq(ret.enc_buf, 1,
                           ret.len - Len(lastOp.rec.key) - Len(lastOp.rec.value) - 4)
           /\ ret.len - Len(lastOp.rec.key) - Len(lastOp.rec.value) - 4
                  <= max_log_record_header_size

(***************************************************************************)
(* C23: decode_log_record_pos(encode(pos)) is a location with the same     *)
(* file_id, offset and size as pos, for every file_id and size of 32 bits  *)
(* and offset of 64 bits: the narrowing of file_id and size to u32 loses   *)
(* nothing.  The encoding is the three varints, of 1 to 5, 1 to 10 and     *)
(* 1 to 5 bytes.                                                           *)
(***************************************************************************)
C23_PosRoundTrip ==
    lastOp.op = "pos_codec" =>
        /\ ret.decoded = lastOp.pos
        /\ Len(ret.enc) = Len(lastOp.pos.file_id) + Len(lastOp.pos.offset)
                              + Len(lastOp.pos.size)
        /\ Len(ret.enc) <= 20

\* The location (u32::MAX, u64::MAX, u32::MAX) was encoded, to 20 bytes,
\* and decoded.
C23_Witness ==
    /\ lastOp.op = "pos_codec"
    /\ lastOp.pos.file_id = <<127, 127, 127, 127, 15>>
    /\ lastOp.pos.offset = [i \in 1..10 |-> IF i = 10 THEN 1 ELSE 127]
    /\ lastOp.pos.size = <<127, 127, 127, 127, 15>>
    /\ Len(ret.enc) = 20
    /\ ret.enc[20] = 15
    /\ ret.decoded.offset = lastOp.pos.offset

(***************************************************************************)
(* C24: put and delete called by several threads at once are atomic with   *)
(* respect to each other: a location installed in the index is returned    *)
(* as the displaced location by at most one put or delete, and a put       *)
(* returns None only if its key had no entry when its insert took effect.  *)
(***************************************************************************)
C24_PutDeleteAtomic ==
    /\ \A i, j \in 1..Len(calls) :
           (i < j /\ calls[i].result # None) =>
               calls[j].result # calls[i].result
    /\ \A i \in 1..Len(calls) :
           (calls[i].op = "put" /\ calls[i].result = None) => calls[i].absent

(***************************************************************************)
(* C25: the items an iterator holds are a point-in-time snapshot even when *)
(* puts and deletes run while it is constructed: at some instant between   *)
(* the start and the end of the iterator() call the index held exactly     *)
(* the entries of items.                                                   *)
(***************************************************************************)
C25_IteratorIsSnapshot ==
    lastOp.op = "shared_iterator" =>
        \E i \in 1..Len(lastOp.during) :
            ret.items = SkipList_iterator(lastOp.during[i], lastOp.options).items


=============================================================================
